---- MODULE Spec2Model ----
(***************************************************************************)
(* Model of torchsr's folder datasets (datasets/div2k.py): the static      *)
(* (track, split, scale) -> directory tables, FolderByDir.get_dir, the     *)
(* construction of a dataset (argument normalisation, optional download,   *)
(* directory listing, count check, index-wise zipping) and indexed access. *)
(*                                                                         *)
(* Paths are sequences of path components, os.path.join is concatenation.  *)
(* File names are strings; their lexicographic order is computed from      *)
(* their characters (Chars).  Python lists are sequences; a Python index i *)
(* is the TLA+ index i + 1.                                                *)
(***************************************************************************)
EXTENDS Integers, Sequences, FiniteSets, TLC

VARIABLES
  cls,        \* the dataset class being constructed
  scale,      \* constructor argument: [tag |-> "int", v |-> n] or [tag |-> "list", v |-> seq]
  track,      \* constructor argument: [tag |-> "str", v |-> s] or [tag |-> "list", v |-> seq]
  split,      \* constructor argument
  transform,  \* constructor argument: "None" or the name of a callable
  download,   \* constructor argument
  fs,         \* the directory tree at listing time: directory path -> set of file names
  pc,         \* "new" before the constructor has run, "done" after
  built,      \* TRUE iff the constructor returned an object
  tracks,     \* self.tracks
  scales,     \* self.scales
  samples,    \* self.samples
  raised,     \* the exception that left the constructor, NoError if none
  trace,      \* the calls to external collaborators made by the constructor, in order
  item,       \* the result of the last __getitem__ call
  query,      \* arguments <<track, split, scale>> of a direct get_dir call
  dirResult   \* result of that call

vars == <<cls, scale, track, split, transform, download, fs, pc, built, tracks,
          scales, samples, raised, trace, item, query, dirResult>>

-----------------------------------------------------------------------------
(* Bounds of the model                                                     *)

\* longest scale / track list passed to a constructor
MaxLen == 2

\* largest number of files in one directory
MaxFiles == 2

-----------------------------------------------------------------------------
(* Static tables                                                           *)

Div2K_urls ==
  << <<"http://data.vision.ee.ethz.ch/cvl/DIV2K/DIV2K_train_HR.zip", "bdc2d9338d4e574fe81bf7d158758658">>
   , <<"http://data.vision.ee.ethz.ch/cvl/DIV2K/DIV2K_train_LR_bicubic_X2.zip", "9a637d2ef4db0d0a81182be37fb00692">>
   , <<"http://data.vision.ee.ethz.ch/cvl/DIV2K/DIV2K_train_LR_bicubic_X3.zip", "ad80b9fe40c049a07a8a6c51bfab3b6d">>
   , <<"http://data.vision.ee.ethz.ch/cvl/DIV2K/DIV2K_train_LR_bicubic_X4.zip", "76c43ec4155851901ebbe8339846d93d">>
   , <<"http://data.vision.ee.ethz.ch/cvl/DIV2K/DIV2K_train_LR_unknown_X2.zip", "1396d023072c9aaeb999c28b81315233">>
   , <<"http://data.vision.ee.ethz.ch/cvl/DIV2K/DIV2K_train_LR_unknown_X3.zip", "4e651308aaa54d917fb1264395b7f6fa">>
   , <<"http://data.vision.ee.ethz.ch/cvl/DIV2K/DIV2K_train_LR_unknown_X4.zip", "e3c7febb1b3f78bd30f9ba15fe8e3956">>
   , <<"http://data.vision.ee.ethz.ch/cvl/DIV2K/DIV2K_train_LR_x8.zip", "613db1b855721b3d2b26f4194a1d22a6">>
   , <<"http://data.vision.ee.ethz.ch/cvl/DIV2K/DIV2K_train_LR_mild.zip", "807b3e3a5156f35bd3a86c5bbfb674bc">>
   , <<"http://data.vision.ee.ethz.ch/cvl/DIV2K/DIV2K_train_LR_difficult.zip", "5a8f2b9e0c5f5ed0dac271c1293662f4">>
   , <<"http://data.vision.ee.ethz.ch/cvl/DIV2K/DIV2K_train_LR_wild.zip", "d00982366bffee7c4739ba7ff1316b3b">>
   , <<"http://data.vision.ee.ethz.ch/cvl/DIV2K/DIV2K_valid_HR.zip", "9fcdda83005c5e5997799b69f955ff88">>
   , <<"http://data.vision.ee.ethz.ch/cvl/DIV2K/DIV2K_valid_LR_bicubic_X2.zip", "1512c9a3f7bde2a1a21a73044e46b9cb">>
   , <<"http://data.vision.ee.ethz.ch/cvl/DIV2K/DIV2K_valid_LR_bicubic_X3.zip", "18b1d310f9f88c13618c287927b29898">>
   , <<"http://data.vision.ee.ethz.ch/cvl/DIV2K/DIV2K_valid_LR_bicubic_X4.zip", "21962de700c8d368c6ff83314480eff0">>
   , <<"http://data.vision.ee.ethz.ch/cvl/DIV2K/DIV2K_valid_LR_unknown_X2.zip", "d319bd9033573d21de5395e6454f34f8">>
   , <<"http://data.vision.ee.ethz.ch/cvl/DIV2K/DIV2K_valid_LR_unknown_X3.zip", "05184168e3608b5c539fbfb46bcade4f">>
   , <<"http://data.vision.ee.ethz.ch/cvl/DIV2K/DIV2K_valid_LR_unknown_X4.zip", "8ac3413102bb3d0adc67012efb8a6c94">>
   , <<"http://data.vision.ee.ethz.ch/cvl/DIV2K/DIV2K_valid_LR_x8.zip", "c5aeea2004e297e9ff3abfbe143576a5">>
   , <<"http://data.vision.ee.ethz.ch/cvl/DIV2K/DIV2K_valid_LR_mild.zip", "8c433f812ca532eed62c11ec0de08370">>
   , <<"http://data.vision.ee.ethz.ch/cvl/DIV2K/DIV2K_valid_LR_difficult.zip", "1620af11bf82996bc94df655cb6490fe">>
   , <<"http://data.vision.ee.ethz.ch/cvl/DIV2K/DIV2K_valid_LR_wild.zip", "aacae8db6bec39151ca5bb9c80bf2f6c">>
   , <<"http://data.vision.ee.ethz.ch/cvl/DIV2K/DIV2K_test_LR_bicubic_X2.zip", "8acf28bea75077e0e7f091c5b2833740">>
   , <<"http://data.vision.ee.ethz.ch/cvl/DIV2K/DIV2K_test_LR_bicubic_X3.zip", "2379a7d09c0466e93783398873edd168">>
   , <<"http://data.vision.ee.ethz.ch/cvl/DIV2K/DIV2K_test_LR_bicubic_X4.zip", "6f7cc64f0d8da00b415edd1bc3ef50c3">>
   , <<"http://data.vision.ee.ethz.ch/cvl/DIV2K/DIV2K_test_LR_unknown_X2.zip", "8fbf73d6aaa28f88c1826db4527356cf">>
   , <<"http://data.vision.ee.ethz.ch/cvl/DIV2K/DIV2K_test_LR_unknown_X3.zip", "0da7370efb61d4a49be29e84c8071cfb">>
   , <<"http://data.vision.ee.ethz.ch/cvl/DIV2K/DIV2K_test_LR_unknown_X4.zip", "1bc4643dbadc18617aa19a865f1b2b28">> >>

Div2K_track_dirs ==
  (<<"hr", "train", 1>> :> <<"DIV2K_train_HR">>)
  @@ (<<"bicubic", "train", 2>> :> <<"DIV2K_train_LR_bicubic", "X2">>)
  @@ (<<"bicubic", "train", 3>> :> <<"DIV2K_train_LR_bicubic", "X3">>)
  @@ (<<"bicubic", "train", 4>> :> <<"DIV2K_train_LR_bicubic", "X4">>)
  @@ (<<"bicubic", "train", 8>> :> <<"DIV2K_train_LR_X8">>)
  @@ (<<"unknown", "train", 2>> :> <<"DIV2K_train_LR_unknown", "X2">>)
  @@ (<<"unknown", "train", 3>> :> <<"DIV2K_train_LR_unknown", "X3">>)
  @@ (<<"unknown", "train", 4>> :> <<"DIV2K_train_LR_unknown", "X4">>)
  @@ (<<"real_mild", "train", 4>> :> <<"DIV2K_train_LR_mild">>)
  @@ (<<"real_difficult", "train", 4>> :> <<"DIV2K_train_LR_difficult">>)
  @@ (<<"hr", "val", 1>> :> <<"DIV2K_valid_HR">>)
  @@ (<<"bicubic", "val", 2>> :> <<"DIV2K_valid_LR_bicubic", "X2">>)
  @@ (<<"bicubic", "val", 3>> :> <<"DIV2K_valid_LR_bicubic", "X3">>)
  @@ (<<"bicubic", "val", 4>> :> <<"DIV2K_valid_LR_bicubic", "X4">>)
  @@ (<<"bicubic", "val", 8>> :> <<"DIV2K_valid_LR_X8">>)
  @@ (<<"unknown", "val", 2>> :> <<"DIV2K_valid_LR_unknown", "X2">>)
  @@ (<<"unknown", "val", 3>> :> <<"DIV2K_valid_LR_unknown", "X3">>)
  @@ (<<"unknown", "val", 4>> :> <<"DIV2K_valid_LR_unknown", "X4">>)
  @@ (<<"real_mild", "val", 4>> :> <<"DIV2K_valid_LR_mild">>)
  @@ (<<"real_difficult", "val", 4>> :> <<"DIV2K_valid_LR_difficult">>)
  @@ (<<"bicubic", "test", 2>> :> <<"DIV2K_test_LR_bicubic", "X2">>)
  @@ (<<"bicubic", "test", 3>> :> <<"DIV2K_test_LR_bicubic", "X3">>)
  @@ (<<"bicubic", "test", 4>> :> <<"DIV2K_test_LR_bicubic", "X4">>)
  @@ (<<"unknown", "test", 2>> :> <<"DIV2K_test_LR_unknown", "X2">>)
  @@ (<<"unknown", "test", 3>> :> <<"DIV2K_test_LR_unknown", "X3">>)
  @@ (<<"unknown", "test", 4>> :> <<"DIV2K_test_LR_unknown", "X4">>)

Benchmark_urls ==
  << <<"https://cv.snu.ac.kr/research/EDSR/benchmark.tar", "4ace41d33c2384b97e6b320cd0afd6ba">> >>

\* track_dirs of Set5, Set14, B100 and Urban100: the same keys, the class name in the path
Benchmark_track_dirs(name) ==
     (<<"hr", "val", 1>> :> <<"benchmark", name, "HR">>)
  @@ (<<"bicubic", "val", 2>> :> <<"benchmark", name, "LR_bicubic", "X2">>)
  @@ (<<"bicubic", "val", 3>> :> <<"benchmark", name, "LR_bicubic", "X3">>)
  @@ (<<"bicubic", "val", 4>> :> <<"benchmark", name, "LR_bicubic", "X4">>)

Classes == {"Div2K", "Set5", "Set14", "B100", "Urban100"}

track_dirs(c) ==
  IF c = "Div2K" THEN Div2K_track_dirs ELSE Benchmark_track_dirs(c)

urls(c) ==
  IF c = "Div2K" THEN Div2K_urls ELSE Benchmark_urls

\* the directory each class hands to FolderByDir.__init__ as root
class_root(c, root) ==
  root \o << IF c = "Div2K" THEN "DIV2K" ELSE "SRBenchmarks" >>

\* the track names the Div2K docstring documents
Div2K_documented_tracks ==
  {"bicubic", "unknown", "real_mild", "real_difficult", "real_wild"}

-----------------------------------------------------------------------------
(* Exceptions                                                              *)

NoError == [type |-> "none", kind |-> "none", subject |-> <<>>, lists |-> {}]

\* an exception: its Python type, which raise statement made it, the values
\* its message interpolates (subject) and the alternatives its message lists
Error(type, kind, subject, lists) ==
  [type |-> type, kind |-> kind, subject |-> subject, lists |-> lists]

\* f"X{scale}"
XStr(s) ==
  CASE s = 1 -> "X1" [] s = 2 -> "X2" [] s = 3 -> "X3" [] s = 4 -> "X4"
    [] s = 8 -> "X8" [] OTHER -> "X?"

-----------------------------------------------------------------------------
(* FolderByDir lookups                                                     *)

get_tracks(c) == {k[1] : k \in DOMAIN track_dirs(c)}

get_splits(c) == {k[2] : k \in DOMAIN track_dirs(c)}

has_split(c, sp) == sp \in get_splits(c)

\* a plausible slip: the message names the track but not the valid ones
track_error_bare(c, t) == Error("ValueError", "track", <<t>>, {})

\* ValueError(f"Track {track} does not exist. Use one of {list(self.get_tracks())}")
track_error(c, t) == Error("ValueError", "track", <<t>>, get_tracks(c))

\* ValueError(f"Split {split} is not valid")
split_error(c, sp) == Error("ValueError", "split", <<sp>>, {})

\* ValueError(f"Div2K track {track} does not include scale X{scale}")
scale_error(c, t, sc) == Error("ValueError", "scale", <<t, XStr(sc)>>, {})

\* a plausible slip: the split is checked before the track
get_dir_split_first(c, root, t, sp, sc) ==
  IF <<t, sp, sc>> \notin DOMAIN track_dirs(c)
  THEN IF sp \notin get_splits(c)
       THEN [raised |-> split_error(c, sp), value |-> <<>>]
       ELSE IF t \notin get_tracks(c)
       THEN [raised |-> track_error(c, t), value |-> <<>>]
       ELSE [raised |-> scale_error(c, t, sc), value |-> <<>>]
  ELSE [raised |-> NoError, value |-> root \o track_dirs(c)[<<t, sp, sc>>]]

\* get_dir: [raised |-> exception or NoError, value |-> the directory path]
get_dir(c, root, t, sp, sc) ==
  IF <<t, sp, sc>> \notin DOMAIN track_dirs(c)
  THEN IF t \notin get_tracks(c)
       THEN [raised |-> track_error(c, t), value |-> <<>>]
       ELSE IF sp \notin get_splits(c)
       THEN [raised |-> split_error(c, sp), value |-> <<>>]
       ELSE [raised |-> scale_error(c, t, sc), value |-> <<>>]
  ELSE [raised |-> NoError, value |-> root \o track_dirs(c)[<<t, sp, sc>>]]

-----------------------------------------------------------------------------
(* The file system                                                         *)

\* the characters of the file names of the model, as code points
Chars ==
  ("a" :> <<1>>) @@ ("ab" :> <<1, 2>>) @@ ("b" :> <<2>>) @@ ("ba" :> <<2, 1>>)

\* the file names, in the order in which the operating system enumerates them
\* (os.listdir promises no order; this one is not the sorted one)
Pool == <<"b", "ab", "a", "ba">>

\* the possible contents of a directory: any of the first MaxFiles names
DirContents ==
  SUBSET {Pool[i] : i \in 1..(IF MaxFiles < Len(Pool) THEN MaxFiles ELSE Len(Pool))}

\* os.listdir(dir)
os_listdir(tree, dir) == SelectSeq(Pool, LAMBDA n : n \in tree[dir])

RECURSIVE SeqLess(_, _)
SeqLess(x, y) ==
  IF x = <<>> THEN y # <<>>
  ELSE IF y = <<>> THEN FALSE
  ELSE IF Head(x) # Head(y) THEN Head(x) < Head(y)
  ELSE SeqLess(Tail(x), Tail(y))

\* Python's a < b on strings
str_less(a, b) == SeqLess(Chars[a], Chars[b])

RECURSIVE insert_sorted(_, _)
insert_sorted(x, s) ==
  IF s = <<>> THEN <<x>>
  ELSE IF str_less(Head(s), x) THEN <<Head(s)>> \o insert_sorted(x, Tail(s))
  ELSE <<x>> \o s

RECURSIVE sort_names(_)
sort_names(s) ==
  IF s = <<>> THEN <<>> ELSE insert_sorted(Head(s), sort_names(Tail(s)))

\* a plausible slip: the listing is used in the order the system gave it
unsorted(s) == s

\* sorted(...) at list_samples
sorted(s) == sort_names(s)

-----------------------------------------------------------------------------
(* Construction                                                            *)

Min(S) == CHOOSE x \in S : \A y \in S : x <= y

\* Python's zip: as long as the shorter argument
Zip(a, b) ==
  [i \in 1..(IF Len(a) < Len(b) THEN Len(a) ELSE Len(b)) |-> <<a[i], b[i]>>]

RECURSIVE Flatten(_)
Flatten(ss) == IF ss = <<>> THEN <<>> ELSE Head(ss) \o Flatten(Tail(ss))

\* os.path.join(track_dir, s) for s in all_samples
join_all(dir, all_samples) ==
  [j \in 1..Len(all_samples) |-> dir \o <<all_samples[j]>>]

\* list_samples once get_dir has returned d or raised
list_resolved(tree, d) ==
  IF d.raised # NoError
  THEN [raised |-> d.raised, value |-> <<>>, calls |-> <<>>]
  ELSE [raised |-> NoError,
        value |-> join_all(d.value, sorted(os_listdir(tree, d.value))),
        calls |-> << <<"listdir", d.value>> >>]

\* list_samples: the directory is resolved first, then listed, sorted and joined
list_samples(c, root, tree, t, sp, sc) ==
  list_resolved(tree, get_dir(c, root, t, sp, sc))

\* a plausible slip: the high-resolution directory is left out
all_tracks_no_hr(c, tr, sc, sp) == Zip(tr, sc)

\* all_tracks at init_samples
all_tracks(c, tr, sc, sp) ==
  IF <<"hr", sp, 1>> \in DOMAIN track_dirs(c)
  THEN Zip(<<"hr">> \o tr, <<1>> \o sc)
  ELSE Zip(tr, sc)

\* the position in all_tracks of the first pair whose get_dir raises, 0 if none
first_bad(res) ==
  LET bad == {k \in 1..Len(res) : res[k].raised # NoError}
  IN IF bad = {} THEN 0 ELSE Min(bad)

\* a plausible alternative: every pair is resolved before anything is listed
listed_count_validate_first(res) ==
  IF first_bad(res) = 0 THEN Len(res) ELSE 0

\* how many directories the first loop of init_samples lists: it stops at the
\* first pair whose get_dir raises
listed_count(res) ==
  IF first_bad(res) = 0 THEN Len(res) ELSE first_bad(res) - 1

\* a plausible slip: only a shorter directory counts as a mismatch
mismatches_shorter_only(lists) ==
  {i \in 0..(Len(lists) - 2) : Len(lists[i + 2]) < Len(lists[1])}

\* the Python indices i of enumerate(samples[1:]) with len(s) != len(samples[0])
mismatches(lists) ==
  {i \in 0..(Len(lists) - 2) : Len(lists[i + 2]) # Len(lists[1])}

\* the exception of the first pair whose get_dir raises, NoError if none does
first_raised(res) ==
  IF first_bad(res) = 0 THEN NoError ELSE res[first_bad(res)].raised

\* the first loop of init_samples: [raised, lists, calls]; each pair is resolved
\* and listed in turn, up to the first whose get_dir raises
list_all(c, root, tree, all, sp) ==
  LET res == [k \in 1..Len(all) |-> get_dir(c, root, all[k][1], sp, all[k][2])]
  IN [raised |-> first_raised(res),
      lists |-> [k \in 1..listed_count(res) |->
                   list_samples(c, root, tree, all[k][1], sp, all[k][2]).value],
      calls |-> Flatten([k \in 1..listed_count(res) |->
                   list_samples(c, root, tree, all[k][1], sp, all[k][2]).calls])]

\* the comparisons made by the second loop of init_samples in its first n rounds
compare_calls(n) == [i \in 1..n |-> <<"compare", i - 1>>]

\* the second loop of init_samples, i being the first mismatching index:
\* ValueError(f"Number of files for {self.tracks[i]}X{self.scales[i]} does not match HR")
count_error(tr, sc, i) ==
  [raised |-> Error("ValueError", "count", <<tr[i + 1], XStr(sc[i + 1])>>, {}),
   samples |-> <<>>, calls |-> compare_calls(i + 1)]

\* the last loop of init_samples: samples[0] is indexed, then the lists are zipped
zip_samples(lists) ==
  IF Len(lists) = 0
  THEN [raised |-> Error("IndexError", "index", <<>>, {}),
        samples |-> <<>>, calls |-> <<>>]
  ELSE [raised |-> NoError,
        samples |-> [i \in 1..Len(lists[1]) |-> [k \in 1..Len(lists) |-> lists[k][i]]],
        calls |-> compare_calls(Len(lists) - 1)]

\* init_samples after the first loop has ended without raising
check_and_zip(tr, sc, lists) ==
  IF mismatches(lists) # {}
  THEN count_error(tr, sc, Min(mismatches(lists)))
  ELSE zip_samples(lists)

\* r with the calls made before it put in front
after_calls(calls, r) ==
  [raised |-> r.raised, samples |-> r.samples, calls |-> calls \o r.calls]

\* init_samples once the first loop has ended as L
init_samples_listed(tr, sc, L) ==
  IF L.raised # NoError
  THEN [raised |-> L.raised, samples |-> <<>>, calls |-> L.calls]
  ELSE after_calls(L.calls, check_and_zip(tr, sc, L.lists))

\* init_samples: [raised, samples, calls]
init_samples(c, root, tree, tr, sc, sp) ==
  init_samples_listed(tr, sc, list_all(c, root, tree, all_tracks(c, tr, sc, sp), sp))

\* download: one call of download_and_extract_archive per entry of urls
download_calls(c) ==
  [i \in 1..Len(urls(c)) |-> <<"download", urls(c)[i][1]>>]

\* scale = [scale] for an int
normalise_scale(scaleArg) ==
  IF scaleArg.tag = "int" THEN <<scaleArg.v>> ELSE scaleArg.v

\* a plausible slip: the track is wrapped, not replicated
normalise_track_once(trackArg, sc) ==
  IF trackArg.tag = "str" THEN <<trackArg.v>> ELSE trackArg.v

\* track = [track] * len(scale) for a str
normalise_track(trackArg, sc) ==
  IF trackArg.tag = "str" THEN [i \in 1..Len(sc) |-> trackArg.v] ELSE trackArg.v

\* __init__ from self.split = split on, tr and sc being the normalised lists
construct_normalised(c, root, tr, sc, sp, dl, tree) ==
  IF Len(tr) # Len(sc)
  THEN [raised |-> Error("ValueError", "length", <<>>, {}),
        samples |-> <<>>, calls |-> <<>>]
  ELSE after_calls(IF dl THEN download_calls(c) ELSE <<>>,
                   init_samples(c, root, tree, tr, sc, sp))

\* the object __init__ leaves: none when it raised
constructed(tr, sc, r) ==
  [raised |-> r.raised, built |-> r.raised = NoError,
   tracks |-> IF r.raised.kind = "length" THEN <<>> ELSE tr,
   scales |-> IF r.raised.kind = "length" THEN <<>> ELSE sc,
   samples |-> r.samples, calls |-> r.calls]

\* __init__ once scale is a list
construct_scales(c, root, sc, trackArg, sp, dl, tree) ==
  constructed(normalise_track(trackArg, sc), sc,
              construct_normalised(c, root, normalise_track(trackArg, sc), sc, sp, dl, tree))

\* FolderByDir.__init__: [raised, built, tracks, scales, samples, calls]
construct(c, root, scaleArg, trackArg, sp, dl, tree) ==
  construct_scales(c, root, normalise_scale(scaleArg), trackArg, sp, dl, tree)

\* pil_loader: the image decoded from the file at path
loader(path) == <<"RGB", path>>

\* Folder.__getitem__
getitem(smpls, tf, index) ==
  [index |-> index, transformed |-> tf # "None",
   images |-> [k \in 1..Len(smpls[index + 1]) |-> loader(smpls[index + 1][k])]]

\* Folder.__len__
len(smpls) == Len(smpls)

-----------------------------------------------------------------------------
(* Inputs                                                                  *)

Root == <<"root">>

SeqsUpTo(S, n) == UNION {[1..k -> S] : k \in 0..n}

ScaleValues == {2, 3}
TrackValues == {"bicubic", "real_mild", "real_wild"}
SplitValues == {"train", "test", "bogus"}
TransformValues == {"None", "T"}

ScaleArgs ==
  {[tag |-> "int", v |-> n] : n \in ScaleValues}
    \cup {[tag |-> "list", v |-> s] : s \in SeqsUpTo(ScaleValues, MaxLen)}

TrackArgs ==
  {[tag |-> "str", v |-> t] : t \in TrackValues}
    \cup {[tag |-> "list", v |-> s] : s \in SeqsUpTo(TrackValues, MaxLen)}

\* the directories a request can reach: the high-resolution one and those of
\* its track/scale pairs up to the first pair that is not in the table
RequestDirs(c, scaleArg, trackArg, sp) ==
  LET sc == normalise_scale(scaleArg)
      tr == IF trackArg.tag = "str" THEN [i \in 1..Len(sc) |-> trackArg.v] ELSE trackArg.v
      pairs == IF Len(tr) = Len(sc) THEN Zip(tr, sc) ELSE <<>>
      known(i) == <<pairs[i][1], sp, pairs[i][2]>> \in DOMAIN track_dirs(c)
      keys == {<<"hr", sp, 1>>}
                \cup {<<pairs[i][1], sp, pairs[i][2]>> :
                        i \in {j \in 1..Len(pairs) : \A h \in 1..j : known(h)}}
  IN {class_root(c, Root) \o track_dirs(c)[k] : k \in keys \cap DOMAIN track_dirs(c)}

NoItem == [index |-> -1, transformed |-> FALSE, images |-> <<>>]
NoQuery == <<"", "", 0>>
NoResult == [raised |-> NoError, value |-> <<>>]

-----------------------------------------------------------------------------
(* Dataset construction and indexed access                                 *)

Init ==
  /\ cls \in Classes
  /\ scale \in ScaleArgs
  /\ track \in IF cls = "Div2K" THEN TrackArgs ELSE {[tag |-> "str", v |-> "bicubic"]}
  /\ split \in IF cls = "Div2K" THEN SplitValues ELSE {"val"}
  /\ transform \in TransformValues
  /\ download \in BOOLEAN
  /\ fs \in [RequestDirs(cls, scale, track, split) -> DirContents]
  /\ pc = "new"
  /\ built = FALSE
  /\ tracks = <<>>
  /\ scales = <<>>
  /\ samples = <<>>
  /\ raised = NoError
  /\ trace = <<>>
  /\ item = NoItem
  /\ query = NoQuery
  /\ dirResult = NoResult

\* cls(root, scale, track, split, transform, loader, download)
Construct ==
  /\ pc = "new"
  /\ \E r \in {construct(cls, class_root(cls, Root), scale, track, split, download, fs)} :
        /\ built' = r.built
        /\ tracks' = r.tracks
        /\ scales' = r.scales
        /\ samples' = r.samples
        /\ raised' = r.raised
        /\ trace' = r.calls
  /\ pc' = "done"
  /\ UNCHANGED <<cls, scale, track, split, transform, download, fs, item, query, dirResult>>

\* dataset[index]
GetItem ==
  /\ pc = "done"
  /\ built
  /\ \E index \in 0..(len(samples) - 1) :
       item' = getitem(samples, transform, index)
  /\ UNCHANGED <<cls, scale, track, split, transform, download, fs, pc, built,
                 tracks, scales, samples, raised, trace, query, dirResult>>

Next == Construct \/ GetItem

Spec == Init /\ [][Next]_vars

-----------------------------------------------------------------------------
(* Direct calls of get_dir                                                 *)

DirTracks == {"hr", "bicubic", "unknown", "real_mild", "real_difficult", "real_wild", "bogus"}
DirSplits == {"train", "val", "test", "bogus"}
DirScales == {1, 2, 3, 4, 8}

InitDir ==
  /\ cls \in Classes
  /\ query \in DirTracks \X DirSplits \X DirScales
  /\ dirResult = NoResult
  /\ pc = "new"
  /\ scale = [tag |-> "list", v |-> <<>>]
  /\ track = [tag |-> "list", v |-> <<>>]
  /\ split = "train"
  /\ transform = "None"
  /\ download = FALSE
  /\ fs = << >>
  /\ built = FALSE
  /\ tracks = <<>>
  /\ scales = <<>>
  /\ samples = <<>>
  /\ raised = NoError
  /\ trace = <<>>
  /\ item = NoItem

\* self.get_dir(track, split, scale)
GetDirCall ==
  /\ pc = "new"
  /\ dirResult' = get_dir(cls, class_root(cls, Root), query[1], query[2], query[3])
  /\ pc' = "done"
  /\ UNCHANGED <<cls, scale, track, split, transform, download, fs, built, tracks,
                 scales, samples, raised, trace, item, query>>

NextDir == GetDirCall

SpecDir == InitDir /\ [][NextDir]_vars

-----------------------------------------------------------------------------
(* Vocabulary of the properties, read off the tables and the file system   *)

Table == track_dirs(cls)

KnownTracks == {k[1] : k \in DOMAIN Table}
KnownSplits == {k[2] : k \in DOMAIN Table}

HasHR == <<"hr", split, 1>> \in DOMAIN Table
HRDir == class_root(cls, Root) \o Table[<<"hr", split, 1>>]

\* the i-th requested (track, scale) pair of the constructed request
PairKey(i) == <<tracks[i], split, scales[i]>>
PairKnown(i) == PairKey(i) \in DOMAIN Table
PairDir(i) == class_root(cls, Root) \o Table[PairKey(i)]
Pairs == 1..Len(tracks)

\* the directories of a request whose keys are all known, in the fixed order
OrderedDirs ==
  (IF HasHR THEN <<HRDir>> ELSE <<>>) \o [i \in Pairs |-> PairDir(i)]

FileCount(dir) == Cardinality(fs[dir])

\* the i-th name of a directory in lexicographic order (i from 1)
NthName(dir, i) ==
  CHOOSE n \in fs[dir] : Cardinality({m \in fs[dir] : str_less(m, n)}) = i - 1

Ops(op) == {i \in 1..Len(trace) : trace[i][1] = op}

LookupKinds == {"track", "split", "scale"}

-----------------------------------------------------------------------------
(* Properties                                                              *)

\* C1: after a successful construction len(dataset) is the number of files of
\* the high-resolution directory when ('hr', split, 1) is in track_dirs, and of
\* the directory of the first requested (track, scale) pair otherwise.
C1_LenIsReferenceCount ==
  (pc = "done" /\ built) =>
     len(samples) = FileCount(IF HasHR THEN HRDir ELSE PairDir(1))

C1_Witness ==
  /\ pc = "done" /\ built /\ HasHR
  /\ Len(tracks) = 2
  /\ len(samples) = 2
  /\ FileCount(HRDir) = 2

\* C2 as stated: whenever the directory of some requested pair holds another
\* number of files than the reference set, construction raises the
\* count-mismatch ValueError, whatever else the request holds.
C2_MismatchAlwaysCountError ==
  (/\ pc = "done"
   /\ \E i \in Pairs :
        /\ PairKnown(i) /\ PairDir(i) \in DOMAIN fs
        /\ IF HasHR THEN FileCount(PairDir(i)) # FileCount(HRDir)
           ELSE PairKnown(1) /\ FileCount(PairDir(i)) # FileCount(PairDir(1)))
  => (raised.type = "ValueError" /\ raised.kind = "count" /\ ~built)

\* C2 amended: when every requested key is in track_dirs and the directory of
\* some requested pair, at any position, holds another number of files than
\* the reference set, construction raises the count-mismatch ValueError and
\* no dataset is produced.
C2_MismatchCountError ==
  (/\ pc = "done"
   /\ \A i \in Pairs : PairKnown(i)
   /\ \E i \in Pairs :
        FileCount(PairDir(i)) # FileCount(IF HasHR THEN HRDir ELSE PairDir(1)))
  => (raised.type = "ValueError" /\ raised.kind = "count" /\ ~built /\ samples = <<>>)

C2_Witness ==
  /\ pc = "done" /\ HasHR
  /\ Len(tracks) = 2 /\ PairKnown(1) /\ PairKnown(2)
  /\ FileCount(PairDir(1)) = FileCount(HRDir)
  /\ FileCount(PairDir(2)) > FileCount(HRDir)
  /\ raised.kind = "count"

\* C3 as stated: a request holding a key that is not in track_dirs raises
\* with no directory listed and nothing downloaded.
C3_RaisesBeforeAnyIO ==
  (pc = "done" /\ \E i \in Pairs : ~PairKnown(i))
  => (raised.kind \in LookupKinds /\ trace = <<>>)

\* C3 amended: a request holding a key that is not in track_dirs raises the
\* lookup error of its first such pair before the directory of that pair or of
\* any later pair is listed; by then the downloads (when requested), the
\* listing of the high-resolution directory (when present) and the listings of
\* the pairs before it have been performed, in this order, and nothing else.
C3_RaisesAtFirstUnknownPair ==
  (pc = "done" /\ \E i \in Pairs : ~PairKnown(i))
  => LET fb == Min({i \in Pairs : ~PairKnown(i)})
     IN /\ raised.kind \in LookupKinds
        /\ ~built
        /\ trace = (IF download
                    THEN [i \in 1..Len(urls(cls)) |-> <<"download", urls(cls)[i][1]>>]
                    ELSE <<>>)
                   \o (IF HasHR THEN << <<"listdir", HRDir>> >> ELSE <<>>)
                   \o [i \in 1..(fb - 1) |-> <<"listdir", PairDir(i)>>]

C3_Witness ==
  /\ pc = "done" /\ download /\ HasHR
  /\ Len(tracks) = 2 /\ PairKnown(1) /\ ~PairKnown(2)
  /\ raised.kind = "scale"
  /\ Cardinality(Ops("listdir")) = 2

\* C4 as stated: each of the three lookup failures of get_dir carries the
\* valid alternatives in its message: the tracks, the splits, the scales.
C4_EveryErrorListsAlternatives ==
  pc = "done" =>
    /\ dirResult.raised.kind = "track" => dirResult.raised.lists = KnownTracks
    /\ dirResult.raised.kind = "split" => dirResult.raised.lists = KnownSplits
    /\ dirResult.raised.kind = "scale" =>
         dirResult.raised.lists =
           {XStr(k[3]) : k \in {x \in DOMAIN Table : x[1] = query[1] /\ x[2] = query[2]}}

\* C4 amended: each of the three lookup failures of get_dir is a ValueError
\* whose message names the offending value; only the unknown-track message
\* lists valid alternatives (the valid tracks), the unknown-split and the
\* unsupported-scale messages list none.
C4_OnlyTrackErrorListsAlternatives ==
  (pc = "done" /\ query \notin DOMAIN Table) =>
    /\ dirResult.raised.type = "ValueError"
    /\ dirResult.raised.kind \in LookupKinds
    /\ dirResult.raised.kind = "track" =>
         dirResult.raised.subject = <<query[1]>> /\ dirResult.raised.lists = KnownTracks
    /\ dirResult.raised.kind = "split" =>
         dirResult.raised.subject = <<query[2]>> /\ dirResult.raised.lists = {}
    /\ dirResult.raised.kind = "scale" =>
         dirResult.raised.subject = <<query[1], XStr(query[3])>> /\ dirResult.raised.lists = {}

C4_Witness ==
  /\ pc = "done" /\ cls = "Div2K"
  /\ query = <<"bogus", "train", 2>>
  /\ dirResult.raised.kind = "track"
  /\ "bicubic" \in dirResult.raised.lists

C7_DocumentedTracksKnown ==
  (pc = "done" /\ cls = "Div2K" /\ query[1] \in Div2K_documented_tracks)
  => (query[1] \in get_tracks(cls) /\ dirResult.raised.kind # "track")

\* C8 as stated: for a key absent from track_dirs the failure is the track
\* error iff the track is in no key, else the split error iff the split is in
\* no key, else the scale error; and whenever the scale error is reported the
\* (track, split) combination is in the table for some other scale.
C8_ScaleErrorMeansCombinationExists ==
  (pc = "done" /\ query \notin DOMAIN Table) =>
    /\ dirResult.raised.kind = "track" <=> query[1] \notin KnownTracks
    /\ dirResult.raised.kind = "split" <=>
         (query[1] \in KnownTracks /\ query[2] \notin KnownSplits)
    /\ dirResult.raised.kind = "scale" <=>
         (query[1] \in KnownTracks /\ query[2] \in KnownSplits)
    /\ dirResult.raised.kind = "scale" =>
         \E k \in DOMAIN Table : k[1] = query[1] /\ k[2] = query[2]

\* C8 amended: for a key absent from track_dirs the failure is the track error
\* iff the track is in no key, else the split error iff the split is in no
\* key, else the scale error; whenever the scale error is reported the track
\* is in some key and the split is in some key (the two need not occur
\* together in any key).
C8_ClassifiedByPriority ==
  (pc = "done" /\ query \notin DOMAIN Table) =>
    /\ dirResult.raised.kind \in LookupKinds
    /\ dirResult.raised.kind = "track" <=> query[1] \notin KnownTracks
    /\ dirResult.raised.kind = "split" <=>
         (query[1] \in KnownTracks /\ query[2] \notin KnownSplits)
    /\ dirResult.raised.kind = "scale" <=>
         (query[1] \in KnownTracks /\ query[2] \in KnownSplits)
    /\ dirResult.raised.kind = "scale" =>
         /\ \E k \in DOMAIN Table : k[1] = query[1]
         /\ \E k \in DOMAIN Table : k[2] = query[2]

C8_Witness ==
  /\ pc = "done" /\ cls = "Div2K"
  /\ query = <<"real_mild", "test", 4>>
  /\ dirResult.raised.kind = "scale"

\* C9: an int scale becomes a one-element list and a str track is replicated
\* once per scale; if the two lists then differ in length a ValueError leaves
\* the constructor before any download or listing; otherwise the downloads
\* (made only when requested, one per entry of urls) all precede the first
\* listing, and every directory of the request has been listed before the
\* first count comparison.
C9_NormalisedThenOrdered ==
  pc = "done" =>
    LET sc == IF scale.tag = "int" THEN <<scale.v>> ELSE scale.v
        tr == IF track.tag = "str" THEN [i \in 1..Len(sc) |-> track.v] ELSE track.v
    IN IF Len(tr) # Len(sc)
       THEN /\ raised.type = "ValueError" /\ raised.kind = "length"
            /\ ~built
            /\ trace = <<>>
       ELSE /\ raised.kind # "length"
            /\ tracks = tr /\ scales = sc
            /\ Ops("download") = IF download THEN 1..Len(urls(cls)) ELSE {}
            /\ \A i \in Ops("listdir") : \A j \in Ops("download") : j < i
            /\ \A i \in Ops("compare") : \A j \in Ops("listdir") : j < i
            /\ Ops("compare") # {} =>
                 Cardinality(Ops("listdir")) = Len(tr) + (IF HasHR THEN 1 ELSE 0)

C9_Witness ==
  /\ pc = "done" /\ built /\ download
  /\ track.tag = "str" /\ scale.tag = "list" /\ Len(scale.v) = 2
  /\ tracks = <<track.v, track.v>>
  /\ Cardinality(Ops("compare")) = 2

\* C10: a construction whose track and scale lists have equal length either
\* succeeds or fails with one of the declared ValueErrors (unknown track,
\* unknown split, unsupported scale, count mismatch), never with another
\* error.
C10_OnlyDeclaredErrors ==
  (pc = "done" /\ raised.kind # "length") =>
    \/ built /\ raised = NoError
    \/ /\ ~built
       /\ raised.type = "ValueError"
       /\ raised.kind \in LookupKinds \cup {"count"}

====
